---- MODULE Spec2Model ----
(***************************************************************************)
(* UM.Settings.MachineSettings: the definition loader, profile activation, *)
(* value changes and the error / warning queries.                          *)
(*                                                                         *)
(* Setting, SettingsCategory, Profile and Signal live outside              *)
(* MachineSettings.py; the parts of them MachineSettings calls are         *)
(* modelled after their description in the specification.                  *)
(***************************************************************************)
EXTENDS Integers, Sequences, FiniteSets, TLC

(***************************************************************************)
(* Bounds of the model.                                                    *)
(***************************************************************************)
\* loadSettingsFromFile calls per run.
MaxLoads == 1
\* Value changes per run.
MaxChanges == 1
\* setActiveProfile calls per run.
MaxActivations == 3
\* loadSettingsFromFile calls per run when definitions are loaded in a row.
MaxReloads == 2
\* setName, saveToFile and loadFromFile calls per run.
MaxInstanceOps == 3

(***************************************************************************)
(* Program constants.                                                      *)
(***************************************************************************)
MachineDefinitionVersion == 1
MachineInstanceVersion == 1

\* Thresholds of the validator every setting carries: a value below
\* MinValueError is min_value_error, below MinValueWarning min_value_warning,
\* above MaxValueError max_value_error, above MaxValueWarning max_value_warning.
MinValueError == 1
MinValueWarning == 2
MaxValueWarning == 2
MaxValueError == 3

\* The values a setting is given: one below and one above the validator's
\* thresholds, and everything between.
Values == (MinValueError - 1)..(MaxValueError + 1)

\* A setting key no definition file declares.
UnknownKey == "kx"

\* An optional field is the empty set (absent) or a singleton (present).
None == {}
Some(x) == {x}
The(s) == CHOOSE x \in s : TRUE

(***************************************************************************)
(* Setting and SettingsCategory.                                           *)
(***************************************************************************)
\* Setting(key, catalog): a new setting has neither default nor value and no
\* listener on valueChanged.
Setting(key) == [key |-> key, default |-> None, value |-> None, wired |-> {}]

\* Setting.fillByDict(data): a "default" entry sets the default value, and
\* the current value with it; the other entries are display data.
SettingFillByDict(s, data) ==
    IF data.default = None THEN s
    ELSE [s EXCEPT !.default = data.default, !.value = data.default]

\* Index of the first setting of the list with this key, 0 when there is none.
IndexOfKey(settings, key) ==
    IF \E i \in 1..Len(settings) : settings[i].key = key
    THEN CHOOSE i \in 1..Len(settings) :
            /\ settings[i].key = key
            /\ \A j \in 1..(i - 1) : settings[j].key # key
    ELSE 0

\* SettingsCategory(key, catalog, parent).
SettingsCategory(key) == [key |-> key, settings |-> <<>>]

\* One entry of a category fragment's "settings": find the setting in this
\* category or create it at the end, then fill it.
CategoryFillOne(cat, key, data) ==
    LET i == IndexOfKey(cat.settings, key) IN
    IF i = 0
    THEN [cat EXCEPT !.settings = Append(@, SettingFillByDict(Setting(key), data))]
    ELSE [cat EXCEPT !.settings[i] = SettingFillByDict(@, data)]

RECURSIVE CategoryFillFrom(_, _, _)
CategoryFillFrom(cat, entries, n) ==
    IF n > Len(entries) THEN cat
    ELSE CategoryFillFrom(CategoryFillOne(cat, entries[n][1], entries[n][2]), entries, n + 1)

\* SettingsCategory.fillByDict(data): the entries of data["settings"] in order.
CategoryFillByDict(cat, data) == CategoryFillFrom(cat, data.settings, 1)

(***************************************************************************)
(* MachineSettings: one instance.                                          *)
(***************************************************************************)
\* MachineSettings.__init__.
NewMachineSettings ==
    [categories |-> <<>>, machine_settings |-> <<>>,
     name |-> "Unknown Machine", type_name |-> "Unknown", type_id |-> "unknown",
     type_version |-> "unknown", json_file |-> "",
     icon |-> Some("unknown.png"), platform_mesh |-> None, platform_texture |-> None]

\* A setting is addressed by <<c, i>>: the i-th setting of the c-th category,
\* or the i-th machine setting when c = 0. <<>> stands for Python's None.
NoSetting == <<>>
SettingAt(m, pos) ==
    IF pos[1] = 0 THEN m.machine_settings[pos[2]]
    ELSE m.categories[pos[1]].settings[pos[2]]

ReplaceSetting(m, pos, s) ==
    IF pos[1] = 0 THEN [m EXCEPT !.machine_settings[pos[2]] = s]
    ELSE [m EXCEPT !.categories[pos[1]].settings[pos[2]] = s]

\* getSettingsCategory(key): index of the first category with this key, 0 for None.
getSettingsCategory(m, key) == IndexOfKey(m.categories, key)

\* addSettingsCategory(category).
addSettingsCategory(m, category) == [m EXCEPT !.categories = Append(@, category)]

\* getSettingByKey(key): the categories first, in order, then the machine settings.
getSettingByKey(m, key) ==
    IF \E c \in 1..Len(m.categories) : IndexOfKey(m.categories[c].settings, key) # 0
    THEN LET c == CHOOSE c \in 1..Len(m.categories) :
                    /\ IndexOfKey(m.categories[c].settings, key) # 0
                    /\ \A b \in 1..(c - 1) : IndexOfKey(m.categories[b].settings, key) = 0
         IN <<c, IndexOfKey(m.categories[c].settings, key)>>
    ELSE IF IndexOfKey(m.machine_settings, key) # 0
    THEN <<0, IndexOfKey(m.machine_settings, key)>>
    ELSE NoSetting

\* The positions of the settings of categories c.. in order.
RECURSIVE CategoryPositions(_, _)
CategoryPositions(m, c) ==
    IF c > Len(m.categories) THEN <<>>
    ELSE [i \in 1..Len(m.categories[c].settings) |-> <<c, i>>] \o CategoryPositions(m, c + 1)

\* getAllSettings(include_machine = ...): the machine settings when asked for,
\* then every category's settings, in order.
getAllSettings(m, include_machine) ==
    (IF include_machine THEN [i \in 1..Len(m.machine_settings) |-> <<0, i>>] ELSE <<>>)
        \o CategoryPositions(m, 1)

\* addSetting(setting): appended to the machine settings, and its valueChanged
\* connected to the settingChanged of the instance `who`.
addSetting(m, setting, who) ==
    [m EXCEPT !.machine_settings = Append(@, [setting EXCEPT !.wired = @ \cup {who}])]

(***************************************************************************)
(* Definition files.  A definition is the parsed JSON document: optional   *)
(* top-level fields, and the three sections as ordered lists of            *)
(* <<key, fragment>> (an absent section and an empty one run the same      *)
(* code: zero iterations).                                                 *)
(***************************************************************************)
Frag(d) == [default |-> d]
NoMeta == [platform |-> None, platform_texture |-> None, icon |-> None]

Definition(id, name, version, meta, inherits, ms, cats, ovr) ==
    [id |-> id, name |-> name, version |-> version,
     platform |-> meta.platform, platform_texture |-> meta.platform_texture,
     icon |-> meta.icon, inherits |-> inherits,
     machine_settings |-> ms, categories |-> cats, overrides |-> ovr]

\* The definition files on disk next to each other.
BaseJson ==
    Definition(Some("base"), Some("Base"), Some(1),
               [platform |-> Some("base.stl"), platform_texture |-> None, icon |-> Some("base.png")],
               None,
               << <<"k2", Frag(Some(2))>> >>,
               << <<"c1", [settings |-> << <<"k1", Frag(Some(2))>>, <<"k3", Frag(Some(1))>> >>]>> >>,
               <<>>)
MidJson ==
    Definition(Some("mid"), Some("Mid"), Some(1), NoMeta, Some("base.json"),
               << <<"k2", Frag(Some(1))>> >>,
               <<>>,
               << <<"k1", Frag(Some(3))>>, <<UnknownKey, Frag(Some(0))>> >>)
LeafJson ==
    Definition(Some("leaf"), Some("Leaf"), Some(1),
               [platform |-> None, platform_texture |-> Some("leaf.png"), icon |-> None],
               Some("mid.json"),
               <<>>,
               << <<"c1", [settings |-> << <<"k3", Frag(Some(4))>> >>]>>,
                  <<"c2", [settings |-> << <<"k4", Frag(Some(2))>> >>]>> >>,
               <<>>)
OldVersionJson ==
    Definition(Some("old"), Some("Old"), Some(2), NoMeta, None, <<>>, <<>>, <<>>)
NamelessJson ==
    Definition(Some("nameless"), None, Some(1), NoMeta, None, <<>>, <<>>, <<>>)
OrphanJson ==
    Definition(Some("orphan"), Some("Orphan"), Some(1), NoMeta, Some("gone.json"),
               <<>>, <<>>, <<>>)
BadParentJson ==
    Definition(Some("badparent"), Some("Bad Parent"), Some(1), NoMeta, Some("old.json"),
               << <<"k1", Frag(Some(2))>> >>, <<>>, <<>>)

LibraryNames == {"base.json", "mid.json", "leaf.json", "old.json", "nameless.json",
                 "orphan.json", "badparent.json"}
Library(file_name) ==
    CASE file_name = "base.json" -> BaseJson
      [] file_name = "mid.json" -> MidJson
      [] file_name = "leaf.json" -> LeafJson
      [] file_name = "old.json" -> OldVersionJson
      [] file_name = "nameless.json" -> NamelessJson
      [] file_name = "orphan.json" -> OrphanJson
      [] file_name = "badparent.json" -> BadParentJson

\* A definition kept outside the directory of the others, under the base
\* name of one of them.
UsbBaseJson ==
    Definition(Some("usb"), Some("Usb"), Some(1), NoMeta, None,
               <<>>, << <<"c1", [settings |-> << <<"k1", Frag(Some(1))>> >>]>> >>, <<>>)
OutsideNames == {"usb/base.json"}

\* open(file_name) + json.load: the document, or None when there is no such file.
ReadFile(file_name) ==
    IF file_name \in LibraryNames THEN Some(Library(file_name))
    ELSE IF file_name \in OutsideNames THEN Some(UsbBaseJson)
    ELSE None

\* str(data["version"]).
str(n) ==
    CASE n = 0 -> "0" [] n = 1 -> "1" [] n = 2 -> "2" [] n = 3 -> "3" [] OTHER -> "n"

(***************************************************************************)
(* loadSettingsFromFile.                                                   *)
(***************************************************************************)
\* One entry of "machine_settings": find the setting anywhere, or create a
\* machine setting, then fill it.
LayerMachineSetting(m, key, value, who) ==
    LET pos == getSettingByKey(m, key) IN
    IF pos = NoSetting
    THEN LET added == addSetting(m, Setting(key), who)
             at == <<0, Len(added.machine_settings)>>
         IN ReplaceSetting(added, at, SettingFillByDict(SettingAt(added, at), value))
    ELSE ReplaceSetting(m, pos, SettingFillByDict(SettingAt(m, pos), value))

RECURSIVE LayerMachineSettings(_, _, _, _)
LayerMachineSettings(m, entries, n, who) ==
    IF n > Len(entries) THEN m
    ELSE LayerMachineSettings(LayerMachineSetting(m, entries[n][1], entries[n][2], who),
                              entries, n + 1, who)

\* LayerCategory filling a new category in place of the one found.
LayerCategory_Replacing(m, key, value) ==
    LET c == getSettingsCategory(m, key) IN
    IF c = 0
    THEN LET added == addSettingsCategory(m, SettingsCategory(key))
             at == Len(added.categories)
         IN [added EXCEPT !.categories[at] = CategoryFillByDict(@, value)]
    ELSE [m EXCEPT !.categories[c] = CategoryFillByDict(SettingsCategory(key), value)]

\* One entry of "categories": find the category or create it, then fill it.
LayerCategory(m, key, value) ==
    LET c == getSettingsCategory(m, key) IN
    IF c = 0
    THEN LET added == addSettingsCategory(m, SettingsCategory(key))
             at == Len(added.categories)
         IN [added EXCEPT !.categories[at] = CategoryFillByDict(@, value)]
    ELSE [m EXCEPT !.categories[c] = CategoryFillByDict(@, value)]

RECURSIVE LayerCategories(_, _, _)
LayerCategories(m, entries, n) ==
    IF n > Len(entries) THEN m
    ELSE LayerCategories(LayerCategory(m, entries[n][1], entries[n][2]), entries, n + 1)

\* LayerOverride creating the setting it does not find, as "machine_settings" does.
LayerOverride_Creating(m, key, value) == LayerMachineSetting(m, key, value, "self")

\* LayerOverride looking the key up among the machine settings only.
LayerOverride_MachineOnly(m, key, value) ==
    LET i == IndexOfKey(m.machine_settings, key) IN
    IF i = 0 THEN m
    ELSE ReplaceSetting(m, <<0, i>>, SettingFillByDict(SettingAt(m, <<0, i>>), value))

\* One entry of "overrides": fill the setting if there is one, else continue.
LayerOverride(m, key, value) ==
    LET pos == getSettingByKey(m, key) IN
    IF pos = NoSetting THEN m
    ELSE ReplaceSetting(m, pos, SettingFillByDict(SettingAt(m, pos), value))

RECURSIVE LayerOverrides(_, _, _)
LayerOverrides(m, entries, n) ==
    IF n > Len(entries) THEN m
    ELSE LayerOverrides(LayerOverride(m, entries[n][1], entries[n][2]), entries, n + 1)

\* for setting in self.getAllSettings(): setting.valueChanged.connect(self.settingChanged),
\* from the n-th setting of the list on.
RECURSIVE ConnectFrom(_, _, _, _)
ConnectFrom(m, all, n, who) ==
    IF n > Len(all) THEN m
    ELSE ConnectFrom(ReplaceSetting(m, all[n],
                                    [SettingAt(m, all[n]) EXCEPT !.wired = @ \cup {who}]),
                     all, n + 1, who)

ConnectAllSettings(m, who) == ConnectFrom(m, getAllSettings(m, FALSE), 1, who)

\* Lines 78-95: the scalar fields.
ReadMetadata(m, file_name, data) ==
    [m EXCEPT !.json_file = file_name,
              !.type_id = The(data.id),
              !.type_name = The(data.name),
              !.platform_mesh = IF data.platform # None THEN data.platform ELSE @,
              !.platform_texture = IF data.platform_texture # None THEN data.platform_texture ELSE @,
              !.type_version = IF data.version # None THEN str(The(data.version)) ELSE @,
              !.icon = IF data.icon # None THEN data.icon ELSE @]

\* Lines 103-128: the three sections on top of m, then the wiring.
LayerSections(m, data, who) ==
    ConnectAllSettings(
        LayerOverrides(
            LayerCategories(
                LayerMachineSettings(m, data.machine_settings, 1, who),
                data.categories, 1),
            data.overrides, 1),
        who)

\* ValidateDefinition rejecting only a newer version (an absent or older one passes).
ValidateDefinition_NewerOnly(data) ==
    IF data.id = None \/ data.name = None THEN "InvalidFileError"
    ELSE IF data.version # None /\ The(data.version) > MachineDefinitionVersion
    THEN "InvalidVersionError"
    ELSE ""

\* ValidateDefinition checking the version before id and name.
ValidateDefinition_VersionFirst(data) ==
    IF data.version = None \/ The(data.version) # MachineDefinitionVersion
    THEN "InvalidVersionError"
    ELSE IF data.id = None \/ data.name = None THEN "InvalidFileError"
    ELSE ""

\* Lines 72-76: the error the top-level fields raise, "" for none.
ValidateDefinition(data) ==
    IF data.id = None \/ data.name = None THEN "InvalidFileError"
    ELSE IF data.version = None \/ The(data.version) # MachineDefinitionVersion
    THEN "InvalidVersionError"
    ELSE ""

\* An outcome whose settingsLoaded was emitted on entry, before any check.
Outcome_EmittedOnEntry(err, m, emitted) == [err |-> err, m |-> m, emitted |-> 1]

\* The outcome of a call: the error raised ("" for none), the instance as the
\* call leaves it, and how often its settingsLoaded was emitted.
Outcome(err, m, emitted) == [err |-> err, m |-> m, emitted |-> emitted]

\* The raise moved below line 80: the instance already names the file.
RejectDefinition_AfterJsonFile(m, file_name, data) ==
    Outcome(ValidateDefinition(data), [m EXCEPT !.json_file = file_name], 0)

\* Lines 72-76 raising: nothing of the instance was assigned yet.
RejectDefinition(m, file_name, data) == Outcome(ValidateDefinition(data), m, 0)

\* loadSettingsFromFile(file_name) on instance m, called `who` ("self" for the
\* instance of the run, "tmp" for an inherits_from instance); file is what
\* open() finds at file_name.
RECURSIVE loadSettingsFromFile(_, _, _, _)
loadSettingsFromFile(m, file_name, file, who) ==
    IF file = None THEN Outcome("FileNotFoundError", m, 0)
    ELSE LET data == The(file) IN
    IF ValidateDefinition(data) # "" THEN RejectDefinition(m, file_name, data)
    ELSE LET meta == ReadMetadata(m, file_name, data) IN
    IF data.inherits # None
    THEN LET parent == loadSettingsFromFile(NewMachineSettings, The(data.inherits),
                                            ReadFile(The(data.inherits)), "tmp")
         IN IF parent.err # "" THEN Outcome(parent.err, meta, 0)
            ELSE Outcome("", LayerSections([meta EXCEPT
                                    !.machine_settings = parent.m.machine_settings,
                                    !.categories = parent.m.categories], data, who), 1)
    ELSE Outcome("", LayerSections(meta, data, who), 1)

(***************************************************************************)
(* Profiles, value changes and setActiveProfile.                           *)
(***************************************************************************)
ProfileIds == {"p1", "p2"}
\* Every key a definition or a profile may hold.
AllKeys == {"k1", "k2", "k3", "k4", UnknownKey}
KeyOrder == <<"k1", "k2", "k3", "k4", UnknownKey>>

\* Profile(): no changed settings.
EmptyProfile == [k \in AllKeys |-> None]

\* Profile.setSettingValue(key, value).
ProfileSetSettingValue(changed_settings, key, value) ==
    [changed_settings EXCEPT ![key] = value]

\* The part of the state a value change can touch.
World(m, profs) == [m |-> m, profiles |-> profs]

\* _onSettingChanged(setting).
onSettingChanged(w, active, setting) ==
    IF active # None
    THEN World(w.m, [w.profiles EXCEPT ![The(active)] =
                        ProfileSetSettingValue(@, setting.key, setting.value)])
    ELSE w

\* Setting.setValue(value): a new value is stored and valueChanged emitted; it
\* reaches this instance's settingChanged when the setting is connected to
\* it, and _onSettingChanged when that is connected (link).
setValue(w, pos, value, link, active) ==
    LET s == SettingAt(w.m, pos) IN
    IF s.value = value THEN w
    ELSE LET changed == [s EXCEPT !.value = value]
             stored == World(ReplaceSetting(w.m, pos, changed), w.profiles)
         IN IF "self" \in s.wired /\ link
            THEN onSettingChanged(stored, active, changed)
            ELSE stored

\* The names MachineSettings defines (lines 26-290); self.<name>() for any
\* other name raises AttributeError.
MachineSettingsMethods ==
    {"_onSettingChanged", "getActiveProfile", "setActiveProfile", "loadSettingsFromFile",
     "loadFromFile", "saveToFile", "getTypeName", "getTypeID", "addSettingsCategory",
     "getSettingsCategory", "getAllCategories", "getAllSettings", "getMachineSettings",
     "getSettingByKey", "addSetting", "setSettingValueByKey", "getSettingValueByKey",
     "getPlatformMesh", "getPlatformTexture", "getName", "setName", "getIcon",
     "hasErrorValue", "hasWarningValue"}

\* Lines 55-56: for setting in self.getAllSettings(): setValue(getDefaultValue()).
RECURSIVE ResetFrom(_, _, _, _, _)
ResetFrom(w, all, n, link, active) ==
    IF n > Len(all) THEN w
    ELSE ResetFrom(setValue(w, all[n], SettingAt(w.m, all[n]).default, link, active),
                   all, n + 1, link, active)

ResetToDefault(w, link, active) == ResetFrom(w, getAllSettings(w.m, FALSE), 1, link, active)

\* Lines 59-62 for the keys from the n-th on, once self.getSetting resolves.
RECURSIVE OverlayFrom(_, _, _, _, _)
OverlayFrom(w, changed_settings, n, link, active) ==
    IF n > Len(KeyOrder) THEN w
    ELSE LET key == KeyOrder[n]
             pos == getSettingByKey(w.m, key)
         IN OverlayFrom(IF changed_settings[key] # None /\ pos # NoSetting
                        THEN setValue(w, pos, changed_settings[key], link, active)
                        ELSE w,
                        changed_settings, n + 1, link, active)

\* setActiveProfile without the disconnect of lines 49-50: the reset runs
\* with the link of the previous profile still attached.
setActiveProfile_KeepingLink(w, link, active, profile) ==
    IF profile = None
    THEN [err |-> "", w |-> w, link |-> link, active |-> profile]
    ELSE LET changed_settings == w.profiles[The(profile)]
             reset == ResetToDefault(w, link, active)
         IN IF \E k \in AllKeys : changed_settings[k] # None
            THEN [err |-> "AttributeError", w |-> reset, link |-> link, active |-> active]
            ELSE [err |-> "", w |-> reset, link |-> TRUE, active |-> profile]

\* setActiveProfile(profile): the error raised, the world, the link and the
\* active profile as the call leaves them.
setActiveProfile(w, link, active, profile) ==
    LET link1 == IF active # None THEN FALSE ELSE link IN
    IF profile = None
    THEN [err |-> "", w |-> w, link |-> link1, active |-> profile]
    ELSE LET changed_settings == w.profiles[The(profile)]
             reset == ResetToDefault(w, link1, active)
         IN IF \E k \in AllKeys : changed_settings[k] # None
            THEN IF "getSetting" \in MachineSettingsMethods
                 THEN [err |-> "", w |-> OverlayFrom(reset, changed_settings, 1, link1, active),
                       link |-> TRUE, active |-> profile]
                 ELSE [err |-> "AttributeError", w |-> reset, link |-> link1, active |-> active]
            ELSE [err |-> "", w |-> reset, link |-> TRUE, active |-> profile]

(***************************************************************************)
(* hasErrorValue / hasWarningValue.                                        *)
(***************************************************************************)
\* Setting.validate(): the validator's classification of the current value.
validate(s) ==
    IF s.value = None THEN "succes"
    ELSE LET v == The(s.value) IN
         IF v < MinValueError THEN "min_value_error"
         ELSE IF v > MaxValueError THEN "max_value_error"
         ELSE IF v < MinValueWarning THEN "min_value_warning"
         ELSE IF v > MaxValueWarning THEN "max_value_warning"
         ELSE "succes"

RECURSIVE AnyResult(_, _, _, _)
AnyResult(m, all, n, codes) ==
    IF n > Len(all) THEN FALSE
    ELSE IF validate(SettingAt(m, all[n])) \in codes THEN TRUE
    ELSE AnyResult(m, all, n + 1, codes)

\* hasErrorValue testing max_value_error only.
hasErrorValue_MaxOnly(m) ==
    AnyResult(m, getAllSettings(m, FALSE), 1, {"max_value_error"})

hasErrorValue(m) ==
    AnyResult(m, getAllSettings(m, FALSE), 1, {"max_value_error", "min_value_error"})

hasWarningValue(m) ==
    AnyResult(m, getAllSettings(m, FALSE), 1, {"max_value_warning", "min_value_warning"})

(***************************************************************************)
(* The state of a run: one MachineSettings instance and the profiles.      *)
(***************************************************************************)
VARIABLES
    machine,          \* the MachineSettings instance
    profiles,         \* profile id -> its changed settings
    active_profile,   \* _active_profile: None or Some(profile id)
    link,             \* settingChanged is connected to _onSettingChanged
    last,             \* the last call: its name, file or profile, and outcome
    activations,      \* setActiveProfile calls so far
    sequence,         \* how far the calls follow setActiveProfile(P1), (P2), (None)
    activated,        \* the profile of the last setActiveProfile call, if it
                      \* was a profile and the call returned; else None
    loads,            \* loadSettingsFromFile calls so far
    changes,          \* setSettingValueByKey calls so far
    instance_file,    \* what saveToFile wrote at the instance path, None before
    saved_instance,   \* the name and json_file of the instance when it wrote it
    instance_ops      \* setName, saveToFile and loadFromFile calls so far

vars == <<machine, profiles, active_profile, link, last, activations, sequence, activated,
          loads, changes, instance_file, saved_instance, instance_ops>>

Call(op, err, file_name, data, profile, emitted) ==
    [op |-> op, err |-> err, file_name |-> file_name, data |-> data,
     profile |-> profile, emitted |-> emitted]

NoCall == Call("", "", "", None, None, 0)

\* The place in the sequence setActiveProfile(P1), setActiveProfile(P2),
\* setActiveProfile(None), each returning, after one more call: 1, 2, 3 after
\* its first, second and third call, 0 outside of it.
SequenceAfter(at, profile, err) ==
    IF err # "" THEN 0
    ELSE IF profile # None THEN (IF at = 1 THEN 2 ELSE 1)
    ELSE IF at = 2 THEN 3 ELSE 0

\* What the profile store hands over for p1; p2 is a new profile.
StoredProfiles ==
    {EmptyProfile,
     [EmptyProfile EXCEPT !["k1"] = Some(3), ![UnknownKey] = Some(1)]}

Init ==
    /\ machine = NewMachineSettings
    /\ \E stored \in StoredProfiles :
            profiles = [p \in ProfileIds |-> IF p = "p1" THEN stored ELSE EmptyProfile]
    /\ active_profile = None
    /\ link = FALSE
    /\ last = NoCall
    /\ activations = 0
    /\ sequence = 0
    /\ activated = None
    /\ loads = 0
    /\ changes = 0
    /\ instance_file = None
    /\ saved_instance = None
    /\ instance_ops = 0

\* machine.loadSettingsFromFile(file_name), the file holding `file`.
LoadSettingsFromFile(file_name, file) ==
    /\ loads < MaxLoads
    /\ LET out == loadSettingsFromFile(machine, file_name, file, "self") IN
        /\ machine' = out.m
        /\ last' = Call("loadSettingsFromFile", out.err, file_name, file, None, out.emitted)
    /\ loads' = loads + 1
    /\ UNCHANGED <<profiles, active_profile, link, activations, sequence, activated, changes,
                   instance_file, saved_instance, instance_ops>>

\* machine.setActiveProfile(profile).
SetActiveProfile(profile) ==
    /\ activations < MaxActivations
    /\ LET out == setActiveProfile(World(machine, profiles), link, active_profile, profile) IN
        /\ machine' = out.w.m
        /\ profiles' = out.w.profiles
        /\ link' = out.link
        /\ active_profile' = out.active
        /\ last' = Call("setActiveProfile", out.err, "", None, profile, 0)
        /\ sequence' = SequenceAfter(sequence, profile, out.err)
        /\ activated' = IF out.err = "" THEN profile ELSE None
    /\ activations' = activations + 1
    /\ UNCHANGED <<loads, changes, instance_file, saved_instance, instance_ops>>

\* machine.setSettingValueByKey(key, value).
SetSettingValueByKey(key, value) ==
    /\ changes < MaxChanges
    /\ LET pos == getSettingByKey(machine, key)
           out == IF pos # NoSetting
                  THEN setValue(World(machine, profiles), pos, value, link, active_profile)
                  ELSE World(machine, profiles)
       IN /\ machine' = out.m
          /\ profiles' = out.profiles
    /\ last' = Call("setSettingValueByKey", "", "", None, None, 0)
    /\ changes' = changes + 1
    /\ UNCHANGED <<active_profile, link, activations, sequence, activated, loads,
                   instance_file, saved_instance, instance_ops>>

FileNames == LibraryNames \cup {"gone.json"}

Next ==
    \/ \E file_name \in FileNames : LoadSettingsFromFile(file_name, ReadFile(file_name))
    \/ \E profile \in {None} \cup {Some(p) : p \in ProfileIds} : SetActiveProfile(profile)
    \/ \E key \in AllKeys, value \in Values : SetSettingValueByKey(key, Some(value))

Spec == Init /\ [][Next]_vars

(***************************************************************************)
(* Loading generated definitions: every combination of the validated       *)
(* top-level fields, and valid definitions that layer their own sections   *)
(* on nothing, on base.json, on mid.json or on leaf.json.                  *)
(***************************************************************************)
ChildMeta == [platform |-> Some("child.stl"), platform_texture |-> None, icon |-> None]

MachineSettingsChoices ==
    {<<>>,
     << <<"k1", Frag(Some(3))>> >>,
     << <<"k4", Frag(Some(3))>> >>,
     << <<"k4", Frag(None)>> >>}

CategoriesChoices ==
    {<<>>,
     << <<"c1", [settings |-> << <<"k3", Frag(Some(0))>> >>]>> >>,
     << <<"c2", [settings |-> << <<"k2", Frag(Some(0))>> >>]>> >>,
     << <<"c2", [settings |-> << <<"k4", Frag(Some(1))>> >>]>>,
        <<"c1", [settings |-> << <<"k4", Frag(Some(2))>> >>]>> >>}

OverridesChoices ==
    {<<>>,
     << <<"k1", Frag(Some(4))>> >>,
     << <<"k1", Frag(None)>> >>,
     << <<"k2", Frag(Some(4))>> >>,
     << <<UnknownKey, Frag(Some(4))>> >>,
     << <<UnknownKey, Frag(Some(4))>>, <<"k3", Frag(Some(0))>> >>}

\* Valid top-level fields, every choice of the sections.
LayeringDefinitions ==
    {Definition(Some("child"), Some("Child"), Some(MachineDefinitionVersion), ChildMeta,
                inherits, ms, cats, ovr) :
        inherits \in {None, Some("base.json"), Some("mid.json"), Some("leaf.json")},
        ms \in MachineSettingsChoices, cats \in CategoriesChoices, ovr \in OverridesChoices}

\* Every presence of id, name and version, with the other fields there or not.
HeaderDefinitions ==
    {Definition(id, name, version, meta, inherits,
                IF sections THEN << <<"k1", Frag(Some(2))>> >> ELSE <<>>,
                IF sections THEN << <<"c1", [settings |-> << <<"k2", Frag(Some(2))>> >>]>> >> ELSE <<>>,
                IF sections THEN << <<"k2", Frag(Some(3))>> >> ELSE <<>>) :
        id \in {None, Some("child")}, name \in {None, Some("Child")},
        version \in {None, Some(MachineDefinitionVersion), Some(MachineDefinitionVersion + 1)},
        meta \in {NoMeta, ChildMeta}, inherits \in {None, Some("base.json")},
        sections \in BOOLEAN}

ChildDefinitions == LayeringDefinitions \cup HeaderDefinitions

InitDef ==
    /\ machine = NewMachineSettings
    /\ profiles = [p \in ProfileIds |-> EmptyProfile]
    /\ active_profile = None
    /\ link = FALSE
    /\ last = NoCall
    /\ activations = 0
    /\ sequence = 0
    /\ activated = None
    /\ loads = 0
    /\ changes = 0
    /\ instance_file = None
    /\ saved_instance = None
    /\ instance_ops = 0

NextDef ==
    \E data \in ChildDefinitions : LoadSettingsFromFile("child.json", Some(data))

SpecDef == InitDef /\ [][NextDef]_vars

(***************************************************************************)
(* Loading definitions one after the other into the same instance.         *)
(***************************************************************************)
\* Definitions without inherits that layer on what the instance holds.
FragmentDefinitions ==
    {Definition(Some("frag"), Some("Frag"), Some(MachineDefinitionVersion), NoMeta, None,
                sections[1], sections[2], sections[3]) :
        sections \in
            {<< <<>>, <<>>, <<>> >>,
             << << <<"k1", Frag(Some(3))>> >>,
                << <<"c1", [settings |-> << <<"k3", Frag(Some(0))>> >>]>> >>,
                << <<"k1", Frag(Some(4))>> >> >>,
             << << <<"k4", Frag(Some(3))>> >>,
                << <<"c2", [settings |-> << <<"k2", Frag(Some(0))>> >>]>> >>,
                << <<"k2", Frag(Some(4))>>, <<UnknownKey, Frag(Some(1))>> >> >>,
             << << <<"k4", Frag(None)>> >>,
                << <<"c2", [settings |-> << <<"k2", Frag(Some(1))>> >>]>> >>,
                <<>> >>,
             << <<>>,
                << <<"c1", [settings |-> << <<"k1", Frag(Some(2))>> >>]>>,
                   <<"c3", [settings |-> << <<"k3", Frag(Some(2))>> >>]>> >>,
                << <<"k3", Frag(None)>> >> >>,
             << << <<"k1", Frag(Some(3))>> >>,
                << <<"c1", [settings |-> << <<"k1", Frag(None)>> >>]>> >>,
                <<>> >>,
             << << <<"k4", Frag(Some(2))>> >>, <<>>, << <<"k3", Frag(Some(4))>> >> >>}}

\* Definitions that fail the checks of lines 72-76, with sections.
RejectedDefinitions ==
    {data \in {Definition(id, name, version, ChildMeta, inherits,
                          << <<"k4", Frag(Some(2))>> >>,
                          << <<"c1", [settings |-> << <<"k3", Frag(Some(3))>> >>]>> >>,
                          <<>>) :
                    id \in {None, Some("bad")}, name \in {None, Some("Bad")},
                    version \in {None, Some(MachineDefinitionVersion),
                                 Some(MachineDefinitionVersion + 1)},
                    inherits \in {None, Some("base.json")}} :
        ValidateDefinition(data) # ""}

\* A definition that layers on base.json.
InheritingDefinitions ==
    {Definition(Some("heir"), Some("Heir"), Some(MachineDefinitionVersion), NoMeta,
                Some("base.json"), << <<"k4", Frag(Some(1))>> >>, <<>>,
                << <<"k1", Frag(Some(1))>> >>)}

SeqDefinitions == FragmentDefinitions \cup RejectedDefinitions \cup InheritingDefinitions

\* machine.loadSettingsFromFile(file_name) once more.
ReloadSettingsFromFile(file_name, file) ==
    /\ loads < MaxReloads
    /\ LET out == loadSettingsFromFile(machine, file_name, file, "self") IN
        /\ machine' = out.m
        /\ last' = Call("loadSettingsFromFile", out.err, file_name, file, None, out.emitted)
    /\ loads' = loads + 1
    /\ UNCHANGED <<profiles, active_profile, link, activations, sequence, activated, changes,
                   instance_file, saved_instance, instance_ops>>

NextSeq ==
    \E data \in SeqDefinitions : ReloadSettingsFromFile("next.json", Some(data))

SpecSeq == InitDef /\ [][NextSeq]_vars

(***************************************************************************)
(* The instance file: setName, saveToFile and loadFromFile.                *)
(***************************************************************************)
\* The names setName is called with.
Names == {"Printer", " Printer", "50%"}

\* configparser's BasicInterpolation.before_set: a '%' that is followed by
\* neither '%' nor '(' is refused with ValueError.
InvalidInterpolationSyntax(value) == value = "50%"

\* What the parser makes of a value it reads from the file: leading and
\* trailing whitespace is dropped.
Stripped(value) == IF value = " Printer" THEN "Printer" ELSE value

\* int(text): the number, or None for the ValueError of a text that is no integer.
int(text) ==
    CASE text = "0" -> Some(0) [] text = "1" -> Some(1) [] text = "2" -> Some(2)
      [] text = "3" -> Some(3) [] OTHER -> None

\* os.path.basename(path).
basename(path) == IF path = "usb/base.json" THEN "base.json" ELSE path

\* Resources.getPath(Resources.MachineDefinitions, name): the path of the
\* definition of that name, or None for FileNotFoundError.
ResourcesGetPath(name) == IF name \in LibraryNames THEN Some(name) ELSE None

\* An instance file: whether it has the section General, and the options of
\* that section as written.
InstanceFile(general, version, name, json_file) ==
    [general |-> general, version |-> version, name |-> name, json_file |-> json_file]

\* config.read(path): no section when there is no file, else the options
\* with their values stripped.
ConfigRead(file) ==
    IF file = None THEN InstanceFile(FALSE, None, None, None)
    ELSE [The(file) EXCEPT !.name = IF @ = None THEN None ELSE Some(Stripped(The(@)))]

\* saveToFile(path): the error raised, and the file at path afterwards.
saveToFile(m, file) ==
    IF InvalidInterpolationSyntax(m.name)
    THEN [err |-> "ValueError", file |-> file]
    ELSE [err |-> "",
          file |-> Some(InstanceFile(TRUE, Some(str(MachineInstanceVersion)),
                                     Some(m.name), Some(basename(m.json_file))))]

\* The version option is there and is the integer MachineInstanceVersion.
\* int() raises ValueError on a text that is no integer.
CheckInstanceVersion(config) ==
    IF config.version = None THEN "InvalidVersionError"
    ELSE IF int(The(config.version)) = None THEN "ValueError"
    ELSE IF The(int(The(config.version))) # MachineInstanceVersion THEN "InvalidVersionError"
    ELSE ""

\* Lines 146-151: the definition is looked up and loaded, then the name set.
LoadInstanceDefinition(m, config) ==
    LET path == ResourcesGetPath(The(config.json_file)) IN
    IF path = None THEN Outcome("InvalidFileError", m, 0)
    ELSE LET out == loadSettingsFromFile(m, The(path), ReadFile(The(path)), "self") IN
         IF out.err = "FileNotFoundError" THEN Outcome("InvalidFileError", out.m, 0)
         ELSE IF out.err # "" THEN out
         ELSE Outcome("", [out.m EXCEPT !.name = The(config.name)], out.emitted)

\* loadFromFile(path), file being what is at path.
loadFromFile(m, file) ==
    LET config == ConfigRead(file) IN
    IF ~config.general THEN Outcome("InvalidFileError", m, 0)
    ELSE IF CheckInstanceVersion(config) # "" THEN Outcome(CheckInstanceVersion(config), m, 0)
    ELSE IF config.name = None \/ config.json_file = None
    THEN Outcome("InvalidFileError", m, 0)
    ELSE LoadInstanceDefinition(m, config)

\* machine.setName(name).
SetName(name) ==
    /\ instance_ops < MaxInstanceOps
    /\ machine' = [machine EXCEPT !.name = name]
    /\ last' = Call("setName", "", "", None, None, 0)
    /\ instance_ops' = instance_ops + 1
    /\ UNCHANGED <<profiles, active_profile, link, activations, sequence, activated, loads,
                   changes, instance_file, saved_instance>>

\* machine.saveToFile("machine.cfg").
SaveToFile ==
    /\ instance_ops < MaxInstanceOps
    /\ LET out == saveToFile(machine, instance_file) IN
        /\ instance_file' = out.file
        /\ saved_instance' = IF out.err = ""
                             THEN Some([name |-> machine.name, json_file |-> machine.json_file])
                             ELSE saved_instance
        /\ last' = Call("saveToFile", out.err, "machine.cfg", None, None, 0)
    /\ instance_ops' = instance_ops + 1
    /\ UNCHANGED <<machine, profiles, active_profile, link, activations, sequence, activated,
                   loads, changes>>

\* machine.loadFromFile(path), file being what is at path.
LoadFromFile(path, file) ==
    /\ instance_ops < MaxInstanceOps
    /\ LET out == loadFromFile(machine, file) IN
        /\ machine' = out.m
        /\ last' = Call("loadFromFile", out.err, path, file, None, out.emitted)
    /\ instance_ops' = instance_ops + 1
    /\ UNCHANGED <<profiles, active_profile, link, activations, sequence, activated, loads,
                   changes, instance_file, saved_instance>>

\* Instance files written by other hands.
OtherInstanceFiles ==
    {InstanceFile(FALSE, None, None, None),
     InstanceFile(TRUE, None, Some("Printer"), Some("base.json")),
     InstanceFile(TRUE, None, None, Some("base.json")),
     InstanceFile(TRUE, Some("2"), Some("Printer"), Some("base.json")),
     InstanceFile(TRUE, Some("x"), Some("Printer"), Some("base.json")),
     InstanceFile(TRUE, Some("1"), None, Some("base.json")),
     InstanceFile(TRUE, Some("1"), Some("Printer"), None),
     InstanceFile(TRUE, Some("1"), Some("Printer"), Some("gone.json")),
     InstanceFile(TRUE, Some("1"), Some("Printer"), Some("orphan.json")),
     InstanceFile(TRUE, Some("1"), Some("Printer"), Some("old.json")),
     InstanceFile(TRUE, Some("1"), Some("Printer"), Some("nameless.json")),
     InstanceFile(TRUE, Some("1"), Some("Printer"), Some("mid.json"))}

\* The definitions loaded directly.
InstanceDefinitionNames == {"base.json", "usb/base.json"}

NextInst ==
    \/ \E file_name \in InstanceDefinitionNames :
            LoadSettingsFromFile(file_name, ReadFile(file_name))
    \/ \E name \in Names : SetName(name)
    \/ SaveToFile
    \/ LoadFromFile("machine.cfg", instance_file)
    \/ \E file \in OtherInstanceFiles : LoadFromFile("other.cfg", Some(file))

SpecInst == InitDef /\ [][NextInst]_vars

(***************************************************************************)
(* Properties of the definition loader.                                    *)
(***************************************************************************)
\* The last call was loadSettingsFromFile on a file that exists.
LoadedAFile == last.op = "loadSettingsFromFile" /\ last.data # None
LastData == The(last.data)

UnsupportedVersion(data) ==
    data.version = None \/ The(data.version) # MachineDefinitionVersion

\* C1, as stated: loading a definition whose version is absent or differs
\* from MachineDefinitionVersion fails with InvalidVersionError, whatever the
\* other top-level fields, id and name included.
C1_VersionErrorWhateverTheOtherFields ==
    (LoadedAFile /\ UnsupportedVersion(LastData)) => last.err = "InvalidVersionError"

\* C1, amended: loading a definition that has both id and name and whose
\* version is absent or differs from MachineDefinitionVersion fails with
\* InvalidVersionError, whatever the remaining top-level fields.
C1_VersionErrorWhenIdAndNamePresent ==
    (LoadedAFile /\ UnsupportedVersion(LastData)
        /\ LastData.id # None /\ LastData.name # None)
    => last.err = "InvalidVersionError"

\* A definition with id, name, an inherits field and sections, but an
\* unsupported version, was refused.
C1_Witness ==
    /\ LoadedAFile /\ UnsupportedVersion(LastData)
    /\ LastData.id # None /\ LastData.name # None
    /\ LastData.inherits # None /\ LastData.overrides # <<>>
    /\ last.err = "InvalidVersionError"

\* C2: loading a definition that lacks id or lacks name fails with
\* InvalidFileError, whatever its version and its other fields.
C2_InvalidFileWithoutIdOrName ==
    (LoadedAFile /\ (LastData.id = None \/ LastData.name = None))
    => last.err = "InvalidFileError"

\* A definition without id whose version is unsupported too was refused as an
\* invalid file.
C2_Witness ==
    /\ LoadedAFile /\ LastData.id = None /\ LastData.name # None
    /\ UnsupportedVersion(LastData)
    /\ last.err = "InvalidFileError"

EverySettingOf(category) ==
    {category.settings[i] : i \in 1..Len(category.settings)}

\* The setting keys a definition declares in its own machine_settings and
\* categories sections.
SectionKeys(data) ==
    {data.machine_settings[n][1] : n \in 1..Len(data.machine_settings)}
    \cup UNION {{data.categories[c][2].settings[n][1] :
                    n \in 1..Len(data.categories[c][2].settings)} :
                c \in 1..Len(data.categories)}

OverrideKeys(data) == {data.overrides[n][1] : n \in 1..Len(data.overrides)}

\* The keys declared along the inheritance chain of a definition.
RECURSIVE ChainKeys(_)
ChainKeys(data) ==
    SectionKeys(data)
    \cup IF data.inherits # None /\ ReadFile(The(data.inherits)) # None
         THEN ChainKeys(The(ReadFile(The(data.inherits))))
         ELSE {}

\* The keys of the settings an instance holds.
HeldKeys(m) ==
    {SettingAt(m, getAllSettings(m, TRUE)[n]).key : n \in 1..Len(getAllSettings(m, TRUE))}

\* What loading the file named by inherits into a new instance gives.
ParentOf(data) ==
    loadSettingsFromFile(NewMachineSettings, The(data.inherits),
                         ReadFile(The(data.inherits)), "tmp")

\* The last call loaded a definition with an inherits field, successfully.
LoadedAChild == LoadedAFile /\ last.err = "" /\ LastData.inherits # None

\* C7: after a child definition with inherits is loaded, every key the
\* parent declares in machine_settings or a category, and that the child's
\* machine_settings, categories and overrides do not mention, is found by
\* getSettingByKey with the default it has in the loaded parent.
C7_InheritedSettingsKept ==
    LoadedAChild =>
        \A key \in SectionKeys(The(ReadFile(The(LastData.inherits))))
                    \ (SectionKeys(LastData) \cup OverrideKeys(LastData)) :
            /\ getSettingByKey(machine, key) # NoSetting
            /\ SettingAt(machine, getSettingByKey(machine, key)).default
                 = SettingAt(ParentOf(LastData).m,
                             getSettingByKey(ParentOf(LastData).m, key)).default

\* A child that fills a category of its parent with one key has loaded, and
\* the parent declares another key in that category.
C7_Witness ==
    /\ LoadedAChild
    /\ \E c \in 1..Len(LastData.categories) :
          /\ getSettingsCategory(ParentOf(LastData).m, LastData.categories[c][1]) # 0
          /\ \E s \in EverySettingOf(ParentOf(LastData).m.categories[
                        getSettingsCategory(ParentOf(LastData).m, LastData.categories[c][1])]) :
                s.key \notin SectionKeys(LastData) \cup OverrideKeys(LastData)

\* The definition without the n-th entry of its overrides.
WithoutOverride(data, n) ==
    [data EXCEPT !.overrides =
        [i \in 1..(Len(data.overrides) - 1) |->
            IF i < n THEN data.overrides[i] ELSE data.overrides[i + 1]]]

\* The override entries of a definition, loaded into instance m, whose key
\* is declared nowhere: not along the inheritance chain, and, when the
\* definition layers on what m already holds, not in m.
UndeclaredOverrides(m, data) ==
    {n \in 1..Len(data.overrides) :
        data.overrides[n][1] \notin
            ChainKeys(data) \cup (IF data.inherits = None THEN HeldKeys(m) ELSE {})}

\* C8: an overrides entry whose key is declared nowhere is a no-op: the load
\* ends as it does without the entry (same error or none), and leaves the
\* same instance, hence the same getAllSettings() with and without machine
\* settings and the same categories.
C8_UndeclaredOverrideIsNoOp ==
    [][(loads' = loads + 1 /\ last'.data # None) =>
        \A n \in UndeclaredOverrides(machine, The(last'.data)) :
            LET without == loadSettingsFromFile(machine, last'.file_name,
                                Some(WithoutOverride(The(last'.data), n)), "self")
            IN /\ last'.err = without.err
               /\ machine' = without.m
               /\ Len(getAllSettings(machine', TRUE)) = Len(getAllSettings(without.m, TRUE))
               /\ Len(getAllSettings(machine', FALSE)) = Len(getAllSettings(without.m, FALSE))
     ]_vars

\* A definition with an undeclared overrides entry next to a declared one
\* has loaded on top of inherited settings.
C8_Witness ==
    /\ LoadedAChild
    /\ \E n \in 1..Len(LastData.overrides) :
          /\ LastData.overrides[n][1] \notin ChainKeys(LastData)
          /\ LastData.overrides[n][2].default # None
    /\ \E n \in 1..Len(LastData.overrides) : LastData.overrides[n][1] \in ChainKeys(LastData)
    /\ Len(getAllSettings(machine, TRUE)) > 0

\* The places <<c, i>> where the loaded parent holds key in a category.
CategoryPlaces(m, key) ==
    UNION {{<<c, i>> : i \in {j \in 1..Len(m.categories[c].settings) :
                                    m.categories[c].settings[j].key = key}} :
           c \in 1..Len(m.categories)}

\* C9: when the parent declares K in category C and the child's overrides
\* give K a default, then after loading the child getSettingByKey(K) has
\* that default, K is where it was in category C, no setting of that key
\* was added, and the number of settings is what it is without the entry.
C9_OverrideReachesInheritedSetting ==
    LoadedAChild =>
        \A n \in 1..Len(LastData.overrides) :
            LET key == LastData.overrides[n][1]
                parent == ParentOf(LastData).m
                without == loadSettingsFromFile(NewMachineSettings, last.file_name,
                                Some(WithoutOverride(LastData, n)), "self").m
            IN (LastData.overrides[n][2].default # None /\ CategoryPlaces(parent, key) # {}) =>
                /\ SettingAt(machine, getSettingByKey(machine, key)).default
                      = LastData.overrides[n][2].default
                /\ \A place \in CategoryPlaces(parent, key) :
                      /\ machine.categories[place[1]].key = parent.categories[place[1]].key
                      /\ place \in CategoryPlaces(machine, key)
                /\ CategoryPlaces(machine, key) = CategoryPlaces(without, key)
                /\ IndexOfKey(machine.machine_settings, key)
                      = IndexOfKey(without.machine_settings, key)
                /\ Len(getAllSettings(machine, TRUE)) = Len(getAllSettings(without, TRUE))

\* A child of base.json has given k1, which base.json declares in category
\* c1 with another default, a default of its own.
C9_Witness ==
    /\ LoadedAChild
    /\ \E n \in 1..Len(LastData.overrides) :
          LET key == LastData.overrides[n][1] IN
          /\ LastData.overrides[n][2].default # None
          /\ CategoryPlaces(ParentOf(LastData).m, key) # {}
          /\ SettingAt(ParentOf(LastData).m, getSettingByKey(ParentOf(LastData).m, key)).default
                # LastData.overrides[n][2].default
          /\ SettingAt(machine, getSettingByKey(machine, key)).default
                = LastData.overrides[n][2].default

(***************************************************************************)
(* Properties of profile activation.                                       *)
(***************************************************************************)
\* Every setting of the instance, machine settings included.
EverySetting(m) ==
    {SettingAt(m, getAllSettings(m, TRUE)[n]) : n \in 1..Len(getAllSettings(m, TRUE))}

AtDefault(s) == s.value = s.default

\* Whether the profile (None or Some(id)) stores a value for the key.
HoldsKey(profile, key) == profile # None /\ profiles[The(profile)][key] # None

\* C3: in the sequence setActiveProfile(P1), setActiveProfile(P2),
\* setActiveProfile(None), with value changes in between, after each call
\* returns every setting whose key is not a key of the newly active profile
\* has its current value equal to its default value.
C3_DefaultsAfterEachActivation ==
    (last.op = "setActiveProfile" /\ sequence \in {1, 2, 3})
    => \A s \in EverySetting(machine) :
          ~HoldsKey(last.profile, s.key) => AtDefault(s)

\* C4: after setActiveProfile(P), P a profile, every setting, machine-level
\* or categorized, holds the value P stores for its key, or its default: the
\* values depend on P and the defaults only.
C4_MachineSettingsResetToo ==
    (last.op = "setActiveProfile" /\ last.profile # None /\ last.err = "")
    => \A s \in EverySetting(machine) :
          s.value = IF HoldsKey(last.profile, s.key)
                    THEN profiles[The(last.profile)][s.key]
                    ELSE s.default

\* C5: setActiveProfile(P), P a profile, never raises; every value P stores
\* for the key of an existing setting is that setting's value afterwards.
C5_ActivationNeverRaises ==
    (last.op = "setActiveProfile" /\ last.profile # None)
    => /\ last.err = ""
       /\ \A key \in AllKeys :
            (HoldsKey(last.profile, key) /\ getSettingByKey(machine, key) # NoSetting)
            => SettingAt(machine, getSettingByKey(machine, key)).value
                  = profiles[The(last.profile)][key]

\* C6: once setActiveProfile(P) has returned and until the next
\* setActiveProfile call, every value change of a setting of the machine is
\* recorded into P as key -> new value, and into no other profile.
C6_ChangesRecordedIntoActivatedProfile ==
    [][changes' = changes + 1 =>
        \A n \in 1..Len(getAllSettings(machine, TRUE)) :
            LET pos == getAllSettings(machine, TRUE)[n]
                before == SettingAt(machine, pos)
                after == SettingAt(machine', pos)
            IN before.value # after.value =>
                /\ activated # None => profiles'[The(activated)][after.key] = after.value
                /\ \A p \in ProfileIds : Some(p) # activated => profiles'[p] = profiles[p]
     ]_vars

(***************************************************************************)
(* Properties of the queries.                                              *)
(***************************************************************************)
ValidatesTo(m, codes) ==
    \E n \in 1..Len(getAllSettings(m, FALSE)) :
        validate(SettingAt(m, getAllSettings(m, FALSE)[n])) \in codes

\* C10: in every reachable state hasErrorValue() is true exactly when some
\* setting of getAllSettings() validates to min_value_error or
\* max_value_error at its current value, and hasWarningValue() exactly when
\* one validates to min_value_warning or max_value_warning.
C10_ErrorAndWarningQueries ==
    /\ hasErrorValue(machine) <=> ValidatesTo(machine, {"min_value_error", "max_value_error"})
    /\ hasWarningValue(machine)
          <=> ValidatesTo(machine, {"min_value_warning", "max_value_warning"})

\* A value change has put a setting in error next to one in warning.
C10_Witness ==
    /\ last.op = "setSettingValueByKey"
    /\ hasErrorValue(machine) /\ hasWarningValue(machine)
    /\ \E s \in EverySetting(machine) : validate(s) = "min_value_error"

(***************************************************************************)
(* Properties of the wiring and of the signals.                            *)
(***************************************************************************)
\* A value change of this setting fires the instance's own settingChanged:
\* its valueChanged is connected to it.
FiresSettingChanged(s) == "self" \in s.wired

\* C12: after loadSettingsFromFile has returned successfully, a value change
\* of any setting of the instance, categorized or machine-level, declared in
\* the file or adopted from a parent, fires this instance's settingChanged.
C12_EveryResolvedSettingWired ==
    (LoadedAFile /\ last.err = "")
    => \A s \in EverySetting(machine) : FiresSettingChanged(s)

C14_ActiveProfileReplaced ==
    last.op = "setActiveProfile" => active_profile = last.profile

\* C18: between setActiveProfile calls the write-back link is attached
\* exactly when the active profile is not None.
C18_LinkIffActiveProfile ==
    link <=> active_profile # None

\* C19: setActiveProfile changes the stored key -> value mapping of no
\* profile, neither the previously active one nor the incoming one.
C19_ActivationLeavesProfilesAlone ==
    [][activations' = activations + 1 => profiles' = profiles]_vars

\* A profile recorded a value change of a categorized setting, and a later
\* activation of a profile has reset that setting to its default.
C19_Witness ==
    /\ last.op = "setActiveProfile" /\ last.profile # None /\ last.err = ""
    /\ activations >= 2 /\ changes = 1
    /\ \E n \in 1..Len(getAllSettings(machine, FALSE)) :
          LET s == SettingAt(machine, getAllSettings(machine, FALSE)[n]) IN
          /\ AtDefault(s)
          /\ \E p \in ProfileIds :
                /\ Some(p) # last.profile
                /\ profiles[p][s.key] # None /\ profiles[p][s.key] # s.default
                /\ s.key \in {"k3", "k4"}

(***************************************************************************)
(* Properties of loading several definitions.                              *)
(***************************************************************************)
\* C16: no two settings of the instance, machine-level and categorized
\* together, share a key, and no two categories share a category key.
C16_KeysUnique ==
    /\ \A i, j \in 1..Len(getAllSettings(machine, TRUE)) :
          i # j => SettingAt(machine, getAllSettings(machine, TRUE)[i]).key
                     # SettingAt(machine, getAllSettings(machine, TRUE)[j]).key
    /\ \A a, b \in 1..Len(machine.categories) :
          a # b => machine.categories[a].key # machine.categories[b].key

\* The settings of an instance: key, default and the category that holds
\* it ("" for a machine setting).
SettingsOf(m) ==
    {[key |-> m.machine_settings[i].key, default |-> m.machine_settings[i].default,
      category |-> ""] : i \in 1..Len(m.machine_settings)}
    \cup UNION {{[key |-> m.categories[c].settings[i].key,
                  default |-> m.categories[c].settings[i].default,
                  category |-> m.categories[c].key] :
                    i \in 1..Len(m.categories[c].settings)} :
                c \in 1..Len(m.categories)}

CategoryKeys(data) == {data.categories[c][1] : c \in 1..Len(data.categories)}

\* Two definitions that mention no common setting key and no common category.
Disjoint(a, b) ==
    /\ (SectionKeys(a) \cup OverrideKeys(a)) \cap (SectionKeys(b) \cup OverrideKeys(b)) = {}
    /\ CategoryKeys(a) \cap CategoryKeys(b) = {}

\* Two loads in a row, of definitions without inherits, both successful.
TwoLayersInARow ==
    /\ loads' = loads + 1
    /\ last.op = "loadSettingsFromFile" /\ last.err = "" /\ last'.err = ""
    /\ The(last.data).inherits = None /\ The(last'.data).inherits = None

\* Loading the definition again leaves the categories, settings and defaults.
IdempotentStep ==
    (TwoLayersInARow /\ last'.data = last.data)
    => /\ machine'.categories = machine.categories
       /\ machine'.machine_settings = machine.machine_settings

\* Two definitions with disjoint keys loaded into a new instance give the
\* settings and defaults that the other order gives.
CommutativeStep ==
    (TwoLayersInARow /\ loads = 1 /\ Disjoint(The(last.data), The(last'.data)))
    => SettingsOf(machine')
         = SettingsOf(loadSettingsFromFile(
                         loadSettingsFromFile(NewMachineSettings, "next.json",
                                              last'.data, "self").m,
                         "next.json", last.data, "self").m)

\* C17: loading the same definition without inherits twice gives the
\* categories, settings and defaults of loading it once, and two definitions
\* with disjoint setting and category keys give the same settings and
\* defaults in either order.
C17_LayeringIdempotentAndCommutative ==
    [][IdempotentStep /\ CommutativeStep]_vars

\* The top-level fields of the definition fail the checks of lines 72-76.
HeaderRejected(data) ==
    data.id = None \/ data.name = None \/ UnsupportedVersion(data)

\* C20: a loadSettingsFromFile that fails the checks of its top-level
\* fields raises and leaves the instance, the wiring, the active profile
\* and the profiles as they were, and emits no signal.
C20_RejectedLoadChangesNothing ==
    [][(loads' = loads + 1 /\ last'.data # None /\ HeaderRejected(The(last'.data)))
        => /\ last'.err \in {"InvalidFileError", "InvalidVersionError"}
           /\ machine' = machine
           /\ active_profile' = active_profile /\ link' = link /\ profiles' = profiles
           /\ last'.emitted = 0
     ]_vars

\* A definition with sections and an inherits field was rejected by an
\* instance that a definition had been loaded into.
C20_Witness ==
    /\ loads = 2 /\ LoadedAFile /\ HeaderRejected(LastData)
    /\ last.err = "InvalidVersionError" /\ LastData.inherits # None
    /\ machine.categories # <<>> /\ machine.json_file = "next.json"

(***************************************************************************)
(* Properties of the instance file.                                        *)
(***************************************************************************)
\* The definition of that file name loads into a new instance.
LoadsFine(file_name) ==
    loadSettingsFromFile(NewMachineSettings, file_name, ReadFile(file_name), "self").err = ""

\* C11: for an instance that holds a definition, saveToFile(path) succeeds,
\* and loadFromFile(path) after it succeeds and leaves the display name and
\* the json_file that the instance had when it was saved.
C11_SaveThenLoadRoundTrip ==
    /\ (last.op = "saveToFile" /\ LoadsFine(machine.json_file)) => last.err = ""
    /\ (/\ last.op = "loadFromFile" /\ last.file_name = "machine.cfg"
        /\ saved_instance # None /\ LoadsFine(The(saved_instance).json_file))
       => /\ last.err = ""
          /\ machine.name = The(saved_instance).name
          /\ machine.json_file = The(saved_instance).json_file

\* The version option is absent or is not MachineInstanceVersion.
InstanceVersionUnsupported(config) ==
    config.version = None \/ int(The(config.version)) # Some(MachineInstanceVersion)

\* Neither the resource lookup nor an open finds the definition or one of
\* its parents.
DefinitionNotFound(name) ==
    \/ ResourcesGetPath(name) = None
    \/ loadSettingsFromFile(NewMachineSettings, name, ReadFile(name), "self").err
          = "FileNotFoundError"

\* C15: loadFromFile fails with InvalidFileError or InvalidVersionError
\* only: InvalidFileError without the section General, InvalidVersionError
\* when the version is absent or unequal, InvalidFileError when name or
\* json_file is missing or the definition cannot be found; FileNotFoundError
\* never escapes, and the name changes only if the load succeeded.
C15_InstanceLoadErrors ==
    [][(instance_ops' = instance_ops + 1 /\ last'.op = "loadFromFile") =>
        LET config == ConfigRead(last'.data) IN
        /\ last'.err \in {"", "InvalidFileError", "InvalidVersionError"}
        /\ ~config.general => last'.err = "InvalidFileError"
        /\ (config.general /\ InstanceVersionUnsupported(config))
              => last'.err = "InvalidVersionError"
        /\ (/\ config.general /\ ~InstanceVersionUnsupported(config)
            /\ (\/ config.name = None \/ config.json_file = None
                \/ DefinitionNotFound(The(config.json_file))))
              => last'.err = "InvalidFileError"
        /\ last'.err # "" => machine'.name = machine.name
     ]_vars

====
